---- MODULE Spec2Model ----
(***************************************************************************)
(* A model of discretize.CylMesh (src/discretize/CylMesh.py): the          *)
(* construction of a cylindrical tensor mesh, its counts and geometry      *)
(* vectors, the deflation matrices, the face divergence and the edge curl, *)
(* and the None-sentinel cache behind every operator property.             *)
(*                                                                         *)
(* Numbers.  Lengths are integers.  Angles are integers in a unit in which *)
(* the full revolution 2*pi is TwoPi units, so pi is TwoPi/2 units; the    *)
(* tolerance 1e-10 of the constructor is smaller than one unit, which is   *)
(* Tol.  Radial widths are even, so that 0.5*(r1^2 - r0^2) is an integer.  *)
(* Matrix entries are exact rationals <<n, d>> in lowest terms (the code   *)
(* computes them in floating point; rounding is not modelled).             *)
(*                                                                         *)
(* Sparse matrices are records [kind, nr, nc, row]: row[r] is a function   *)
(* from the columns that hold a nonzero to the entry.  A product, sum or   *)
(* stack of blocks whose shapes do not fit is the value DimErr, as scipy   *)
(* raises ValueError there; an operation on an error value passes it on.   *)
(***************************************************************************)
EXTENDS Integers, Sequences, FiniteSets, TLC

\* ---------------------------------------------------------------- bounds
\* the largest numbers of cells per axis of the meshes whose operators are built
MaxNCx == 2
MaxNCy == 2
MaxNCz == 2
\* the most points in a loc array or a Cartesian grid
MaxPts == 2
\* the largest maxIter tried, and the most evalFunction calls of one minimize
MaxIterBound == 2
MaxEvals == 2
\* the largest numbers of cells per axis of the meshes whose counts are queried
CntNCx == 5
CntNCy == 4
CntNCz == 3

\* 2*pi in angular units (CylMesh.py:30, :34) and the tolerance of :34
TwoPi == 12
Tol == 1
Pi == TwoPi \div 2
\* Inversion.beta0 and Inversion.beta_coolingFactor
beta0 == 100
beta_coolingFactor == 5

\* ------------------------------------------------------------- rationals
Abs(x) == IF x < 0 THEN -x ELSE x

RECURSIVE GCD(_, _)
GCD(a, b) == IF b = 0 THEN a ELSE GCD(b, a % b)

\* the rational n/d (d # 0) in lowest terms with a positive denominator
Q(n, d) ==
    LET g == GCD(Abs(n), Abs(d))
        s == IF d < 0 THEN -1 ELSE 1
    IN  <<(s * n) \div g, (s * d) \div g>>

QInt(n) == <<n, 1>>
QAdd(a, b) == Q(a[1] * b[2] + b[1] * a[2], a[2] * b[2])
QMul(a, b) == Q(a[1] * b[1], a[2] * b[2])
QNeg(a) == <<-a[1], a[2]>>
QInv(n) == Q(1, n)

RECURSIVE QSum(_, _)
\* the sum of f[k] over k in S
QSum(S, f) ==
    IF S = {} THEN QInt(0)
    ELSE LET k == CHOOSE x \in S : TRUE
         IN  QAdd(f[k], QSum(S \ {k}, f))

\* ---------------------------------------------------------------- vectors
RECURSIVE SumSeq(_)
SumSeq(s) == IF s = <<>> THEN 0 ELSE Head(s) + SumSeq(Tail(s))

\* np.cumsum
cumsum(s) == [i \in 1..Len(s) |-> SumSeq(SubSeq(s, 1, i))]

\* np.ones(n)
ones(n) == [i \in 1..n |-> 1]

\* np.kron of two vectors
KronV(a, b) ==
    [i \in 1..(Len(a) * Len(b)) |->
        a[((i - 1) \div Len(b)) + 1] * b[((i - 1) % Len(b)) + 1]]

\* ------------------------------------------------------- sparse matrices
None == [kind |-> "none"]

\* the exceptions the code can end in
DimErr == [kind |-> "err", what |-> "ValueError"]
AssertErr == [kind |-> "err", what |-> "AssertionError"]
IndexErr == [kind |-> "err", what |-> "IndexError"]
NotImplErr == [kind |-> "err", what |-> "NotImplementedError"]

IsErr(A) == A.kind = "err"

\* a numpy vector
Vec(s) == [kind |-> "vec", v |-> s]

Mat(n, m, rows) == [kind |-> "mat", nr |-> n, nc |-> m, row |-> rows]

IsMat(A) == A.kind = "mat"

\* a row with its zero entries dropped
Prune(f) ==
    LET S == {c \in DOMAIN f : f[c][1] # 0}
    IN  [c \in S |-> f[c]]

\* utils.spzeros(n, m)
spzeros(n, m) == Mat(n, m, [r \in 1..n |-> <<>>])

\* utils.speye(n), sp.identity(n), sp.eye(n)
speye(n) == Mat(n, n, [r \in 1..n |-> (r :> QInt(1))])

\* utils.ddx(n): the n x (n+1) difference, -1 on the diagonal, +1 above it
ddx(n) == Mat(n, n + 1, [r \in 1..n |-> (r :> QInt(-1)) @@ ((r + 1) :> QInt(1))])

\* utils.av(n): the n x (n+1) average, 1/2 on the diagonal and above it
av(n) == Mat(n, n + 1, [r \in 1..n |-> (r :> Q(1, 2)) @@ ((r + 1) :> Q(1, 2))])

\* sp.kron(A, B)
Kron(A, B) ==
    IF ~IsMat(A) THEN A ELSE IF ~IsMat(B) THEN B
    ELSE Mat(A.nr * B.nr, A.nc * B.nc,
             [r \in 1..(A.nr * B.nr) |->
                LET ra == A.row[((r - 1) \div B.nr) + 1]
                    rb == B.row[((r - 1) % B.nr) + 1]
                IN  [c \in {(ca - 1) * B.nc + cb : ca \in DOMAIN ra, cb \in DOMAIN rb} |->
                        QMul(ra[((c - 1) \div B.nc) + 1], rb[((c - 1) % B.nc) + 1])]])

\* utils.kron3(A, B, C) = sp.kron(sp.kron(A, B), C)
kron3(A, B, C) == Kron(Kron(A, B), C)

\* the sparse product A * B
MatMul(A, B) ==
    IF ~IsMat(A) THEN A ELSE IF ~IsMat(B) THEN B
    ELSE IF A.nc # B.nr THEN DimErr
    ELSE Mat(A.nr, B.nc,
             [r \in 1..A.nr |->
                LET ra == A.row[r]
                    cols == UNION {DOMAIN B.row[k] : k \in DOMAIN ra}
                IN  Prune([c \in cols |->
                        QSum({k \in DOMAIN ra : c \in DOMAIN B.row[k]},
                             [k \in DOMAIN ra |->
                                IF c \in DOMAIN B.row[k]
                                THEN QMul(ra[k], B.row[k][c]) ELSE QInt(0)])])])

\* the sparse sum A + B
MatAdd(A, B) ==
    IF ~IsMat(A) THEN A ELSE IF ~IsMat(B) THEN B
    ELSE IF A.nr # B.nr \/ A.nc # B.nc THEN DimErr
    ELSE Mat(A.nr, A.nc,
             [r \in 1..A.nr |->
                Prune([c \in DOMAIN A.row[r] \cup DOMAIN B.row[r] |->
                    QAdd(IF c \in DOMAIN A.row[r] THEN A.row[r][c] ELSE QInt(0),
                         IF c \in DOMAIN B.row[r] THEN B.row[r][c] ELSE QInt(0))])])

\* -A
MatNeg(A) ==
    IF ~IsMat(A) THEN A
    ELSE Mat(A.nr, A.nc, [r \in 1..A.nr |-> [c \in DOMAIN A.row[r] |-> QNeg(A.row[r][c])]])

\* s * A for a rational s
MatScale(s, A) ==
    IF ~IsMat(A) THEN A
    ELSE Mat(A.nr, A.nc,
             [r \in 1..A.nr |-> Prune([c \in DOMAIN A.row[r] |-> QMul(s, A.row[r][c])])])

\* sp.hstack((A, B))
HStack(A, B) ==
    IF ~IsMat(A) THEN A ELSE IF ~IsMat(B) THEN B
    ELSE IF A.nr # B.nr THEN DimErr
    ELSE Mat(A.nr, A.nc + B.nc,
             [r \in 1..A.nr |->
                [c \in DOMAIN A.row[r] \cup {A.nc + cb : cb \in DOMAIN B.row[r]} |->
                    IF c <= A.nc THEN A.row[r][c] ELSE B.row[r][c - A.nc]]])

\* sp.vstack((A, B))
VStack(A, B) ==
    IF ~IsMat(A) THEN A ELSE IF ~IsMat(B) THEN B
    ELSE IF A.nc # B.nc THEN DimErr
    ELSE Mat(A.nr + B.nr, A.nc,
             [r \in 1..(A.nr + B.nr) |->
                IF r <= A.nr THEN A.row[r] ELSE B.row[r - A.nr]])

\* sp.block_diag((A, B))
BlockDiag(A, B) ==
    IF ~IsMat(A) THEN A ELSE IF ~IsMat(B) THEN B
    ELSE VStack(HStack(A, spzeros(A.nr, B.nc)), HStack(spzeros(B.nr, A.nc), B))

\* A[:, lo:hi] with 0-based, half-open column bounds as in the source
ColSlice(A, lo, hi) ==
    IF ~IsMat(A) THEN A
    ELSE Mat(A.nr, hi - lo,
             [r \in 1..A.nr |->
                [c \in {k - lo : k \in {x \in DOMAIN A.row[r] : x > lo /\ x <= hi}} |->
                    A.row[r][c + lo]]])

\* utils.sdiag(v) for a vector of rationals
sdiagQ(v) == Mat(Len(v), Len(v), [r \in 1..Len(v) |-> Prune(r :> v[r])])

\* utils.sdiag(x) for a vector of integers
sdiag(x) ==
    IF x.kind # "vec" THEN x
    ELSE sdiagQ([i \in 1..Len(x.v) |-> QInt(x.v[i])])

\* utils.sdiag(1/x)
sdiagInv(x) ==
    IF x.kind # "vec" THEN x
    ELSE sdiagQ([i \in 1..Len(x.v) |-> QInv(x.v[i])])

\* A with A[r, c] = v assigned (1-based)
SetEntry(A, r, c, v) ==
    Mat(A.nr, A.nc, [A.row EXCEPT ![r] = Prune((c :> v) @@ A.row[r])])

\* A[keep, :] for a set keep of 1-based row numbers, in increasing order
RowSelect(A, keep) ==
    Mat(Cardinality(keep), A.nc,
        [r \in 1..Cardinality(keep) |->
            A.row[CHOOSE x \in keep : Cardinality({y \in keep : y < x}) = r - 1]])


\* ------------------------------------------------------------ the mesh
\* A mesh is a record [dim, hx, hy, hz] of its dimension and cell widths
\* (hz = <<>> on a 2-dimensional disk mesh).

\* BaseTensorMesh: the numbers of cells per axis
nCx(m) == Len(m.hx)
nCy(m) == Len(m.hy)
nCz(m) == Len(m.hz)
vnC(m) == IF m.dim = 3 THEN <<nCx(m), nCy(m), nCz(m)>> ELSE <<nCx(m), nCy(m)>>
nC(m) == nCx(m) * nCy(m) * nCz(m)

isSymmetric(m) == nCy(m) = 1

\* nNx without the symmetric case
nNxPlusOne(m) == nCx(m) + 1

nNx(m) == IF isSymmetric(m) THEN nCx(m) ELSE nCx(m) + 1

nNy(m) == IF isSymmetric(m) THEN 0 ELSE nCy(m)

\* BaseTensorMesh: nNz = nCz + 1
nNz(m) == nCz(m) + 1

Prod3(v) == v[1] * v[2] * v[3]

\* BaseRectangularMesh: the shapes of the node, face and edge families
vnN(m) == <<nNx(m), nNy(m), nNz(m)>>
vnFx(m) == vnC(m)
vnFy(m) == <<nCx(m), nNy(m), nCz(m)>>
vnFz(m) == <<nCx(m), nCy(m), nNz(m)>>
vnEx(m) == <<nCx(m), nNy(m), nNz(m)>>

vnEy(m) ==
    LET n == IF isSymmetric(m) THEN nNx(m) ELSE nNx(m) - 1
    IN  <<n, nCy(m), nNz(m)>>

\* None on a mesh that is not symmetric
vnEz(m) == IF isSymmetric(m) THEN <<nNx(m), nNy(m), nCz(m)>> ELSE None

nFx(m) == Prod3(vnFx(m))
nFy(m) == Prod3(vnFy(m))
nFz(m) == Prod3(vnFz(m))
nF(m) == nFx(m) + nFy(m) + nFz(m)
nEx(m) == Prod3(vnEx(m))
nEy(m) == Prod3(vnEy(m))

nEz(m) ==
    IF isSymmetric(m) THEN Prod3(vnEz(m))
    ELSE (nNx(m) - 1) * nNy(m) * nCz(m) + nCz(m)

nE(m) == nEx(m) + nEy(m) + nEz(m)

vectorNx(m) == IF isSymmetric(m) THEN cumsum(m.hx) ELSE cumsum(<<0>> \o m.hx)

vectorNz(m) == cumsum(<<0>> \o m.hz)

\* x[1:] and x[:-1] of a vector, and [0] + x[:-1]
Rest(x) == SubSeq(x, 2, Len(x))
Front(x) == SubSeq(x, 1, Len(x) - 1)

\* the elementwise a**2 - b**2, times the factor f, halved when half is set
\* (the halved value is exact: the radii are even)
SqDiff(a, b, f, half) ==
    [i \in 1..Len(a) |->
        IF half THEN (f * (a[i] * a[i] - b[i] * b[i])) \div 2
        ELSE f * (a[i] * a[i] - b[i] * b[i])]

Scaled(f, x) == [i \in 1..Len(x) |-> f * x[i]]

\* the edge lengths without the z-edge on the axis
BuildEdgeNoAxis(m) ==
    IF isSymmetric(m)
    THEN Vec(Scaled(TwoPi, KronV(ones(nNz(m)), KronV(ones(1), vectorNx(m)))))
    ELSE LET edgeR == KronV(ones(nCz(m) + 1), KronV(ones(nCy(m)), m.hx))
             edgeT == KronV(ones(nCz(m) + 1), KronV(m.hy, Rest(vectorNx(m))))
             edgeZ == KronV(m.hz, ones(nCx(m) * nCy(m)))
         IN  Vec(edgeR \o edgeT \o edgeZ)

\* Edge lengths
BuildEdge(m) ==
    IF isSymmetric(m)
    THEN \* 2*pi*gridN[:, 0]: the radius of every node, x running fastest
         Vec(Scaled(TwoPi, KronV(ones(nNz(m)), KronV(ones(1), vectorNx(m)))))
    ELSE LET edgeR == KronV(ones(nCz(m) + 1), KronV(ones(nCy(m)), m.hx))
             edgeT == KronV(ones(nCz(m) + 1), KronV(m.hy, Rest(vectorNx(m))))
             edgeZ == KronV(m.hz, ones(nCx(m) * nCy(m) + 1))
         IN  Vec(edgeR \o edgeT \o edgeZ)

\* Face areas
BuildArea(m) ==
    IF isSymmetric(m)
    THEN LET areaR == KronV(m.hz, Scaled(TwoPi, vectorNx(m)))
             areaZ == KronV(ones(Len(vectorNz(m))),
                            SqDiff(vectorNx(m), <<0>> \o Front(vectorNx(m)), Pi, FALSE))
         IN  Vec(areaR \o areaZ)
    ELSE LET areaR == KronV(m.hz, KronV(m.hy, Rest(vectorNx(m))))
             areaT == KronV(m.hz, KronV(ones(nNy(m)), m.hx))
             areaZ == KronV(ones(nNz(m)),
                            KronV(m.hy, SqDiff(Rest(vectorNx(m)), Front(vectorNx(m)), 1, TRUE)))
         IN  Vec(areaR \o areaT \o areaZ)

\* cell volumes whose full-mode formula lacks the factor 0.5
BuildVolNoHalf(m) ==
    IF isSymmetric(m)
    THEN Vec(KronV(m.hz, SqDiff(vectorNx(m), <<0>> \o Front(vectorNx(m)), Pi, FALSE)))
    ELSE Vec(KronV(m.hz,
                   KronV(m.hy, SqDiff(Rest(vectorNx(m)), Front(vectorNx(m)), 1, FALSE))))

\* Volume of each cell
BuildVol(m) ==
    IF isSymmetric(m)
    THEN Vec(KronV(m.hz, SqDiff(vectorNx(m), <<0>> \o Front(vectorNx(m)), Pi, FALSE)))
    ELSE Vec(KronV(m.hz,
                   KronV(m.hy, SqDiff(Rest(vectorNx(m)), Front(vectorNx(m)), 1, TRUE))))

\* BaseRectangularMesh.r(x, 'F', outType, 'V'): the outType component of a
\* face vector, which must have nF entries
rF(m, x, outType) ==
    IF x.kind # "vec" THEN x
    ELSE IF Len(x.v) # nF(m) THEN AssertErr
    ELSE CASE outType = "Fx" -> Vec(SubSeq(x.v, 1, nFx(m)))
           [] outType = "Fy" -> Vec(SubSeq(x.v, nFx(m) + 1, nFx(m) + nFy(m)))
           [] outType = "Fz" -> Vec(SubSeq(x.v, nFx(m) + nFy(m) + 1, nF(m)))


\* ------------------------------------------------- deflation matrices
\* the tags the assertion of _deflationMatrix lets through
DeflationTags(m) ==
    {"N", "F", "Fx", "Fy", "E", "Ex", "Ey"} \cup (IF m.dim = 3 THEN {"Fz", "Ez"} ELSE {})

\* wrap_theta with its last row pointing at the last column, not the first
wrap_thetaNoWrap(m) ==
    Mat(nCy(m) + 1, nCy(m),
        [r \in 1..(nCy(m) + 1) |-> ((IF r <= nCy(m) THEN r ELSE nCy(m)) :> QInt(1))])

\* (nCy+1) x nCy: row j holds a 1 in column j, the last row a 1 in column 0
wrap_theta(m) ==
    Mat(nCy(m) + 1, nCy(m),
        [r \in 1..(nCy(m) + 1) |-> ((IF r <= nCy(m) THEN r ELSE 1) :> QInt(1))])

\* collapse_x with the r = 0 row folded onto the first column
collapse_xFold(m) ==
    Mat(nCx(m) + 1, nCx(m),
        [r \in 1..(nCx(m) + 1) |-> ((IF r = 1 THEN 1 ELSE r - 1) :> QInt(1))])

\* (nCx+1) x nCx: row i+1 holds a 1 in column i; row 0 is empty
collapse_x(m) ==
    Mat(nCx(m) + 1, nCx(m),
        [r \in 1..(nCx(m) + 1) |-> IF r = 1 THEN <<>> ELSE ((r - 1) :> QInt(1))])

\* a keep-mask that drops nothing
keepmeAll(m) == 1..(nNx(m) * nNy(m))

\* the rows of eye(nNx*nNy) that the keep-mask of the 'Ez' branch keeps
\* (1-based): all but nNx+1, 2*nNx+1, ...
keepme(m) ==
    LET n == nNx(m) * nNy(m)
        removeme == {i \in 1..n : i > 1 /\ (i - 1) % nNx(m) = 0}
    IN  (1..n) \ removeme

\* _deflationMatrix(location): a matrix, None where the branch is `pass`,
\* or the exception raised
deflationMatrix(m, location) ==
    IF location \notin DeflationTags(m) THEN AssertErr
    ELSE CASE location = "Fx" ->
                IF m.dim < 3 THEN IndexErr
                ELSE kron3(speye(vnC(m)[3]), speye(vnC(m)[2]), collapse_x(m))
           [] location = "Fy" ->
                IF m.dim < 3 THEN IndexErr
                ELSE kron3(speye(vnC(m)[3]), wrap_theta(m), speye(vnC(m)[1]))
           [] location = "Fz" -> speye(nFz(m))
           [] location = "Ez" ->
                Kron(speye(nCz(m)), RowSelect(speye(nNx(m) * nNy(m)), keepme(m)))
           [] OTHER -> None

\* ------------------------------------------------------ face divergence
\* the difference stencils of faceDivx, faceDivy and faceDivz: D1, D2, D3
faceDivxStencil(m) ==
    MatMul(kron3(speye(nCz(m)), speye(nCy(m)), ddx(nCx(m))), deflationMatrix(m, "Fx"))

faceDivyStencil(m) ==
    MatMul(kron3(speye(nCz(m)), ddx(nCy(m)), speye(nCx(m))), deflationMatrix(m, "Fy"))

faceDivzStencil(m) == kron3(ddx(nCz(m)), speye(nCy(m)), speye(nCx(m)))

\* utils.sdiag(1/V)*D*utils.sdiag(S)
ScaleDiv(V, D, S) == MatMul(MatMul(sdiagInv(V), D), sdiag(S))

\* the body of faceDiv, given self.faceDivx, self.faceDivy and self.faceDivz
\* (D2 is read in the branch nCy > 1 only)
BuildFaceDiv(m, D1, D2, D3) ==
    IF isSymmetric(m) THEN HStack(D1, D3)
    ELSE HStack(HStack(D1, D2), D3)

\* ------------------------------------------------------------ edge curl
\* sp.spdiags of the constant diagonals -1 and +1 at the offsets of the source
\* n x n, -1 below the diagonal and +1 on it
spdiags_dr(n) ==
    Mat(n, n, [r \in 1..n |->
        (r :> QInt(1)) @@ (IF r > 1 THEN ((r - 1) :> QInt(-1)) ELSE <<>>)])

\* n x (n+1), -1 on the diagonal and +1 above it
spdiags_dz(n) ==
    Mat(n, n + 1, [r \in 1..n |-> (r :> QInt(-1)) @@ ((r + 1) :> QInt(1))])

\* ddxz with the seam entry left out
ddxzNoWrap(m) == ColSlice(ddx(nCy(m)), 0, nCy(m))

\* ddx(nCy)[:, :-1] plus a 1 at (nCy-1, 0): the azimuthal difference that
\* wraps at the seam
ddxz(m) ==
    MatAdd(ColSlice(ddx(nCy(m)), 0, nCy(m)),
           Mat(nCy(m), nCy(m),
               [r \in 1..nCy(m) |-> IF r = nCy(m) THEN (1 :> QInt(1)) ELSE <<>>]))

\* -1 in column 0 of the rows 0, nCx, 2*nCx, ... of an (nCx*nCy) x 1 matrix
wrap_z(m) ==
    Mat(nCx(m) * nCy(m), 1,
        [r \in 1..(nCx(m) * nCy(m)) |->
            IF (r - 1) % nCx(m) = 0 THEN (1 :> QInt(-1)) ELSE <<>>])

\* vstack((Dz, Dr)) of the symmetric branch
CurlStencilSym(m) ==
    LET dr == spdiags_dr(nCx(m))
        dz == spdiags_dz(nCz(m))
        Dr == Kron(speye(nNz(m)), dr)
        Dz == MatNeg(Kron(dz, speye(nCx(m))))
    IN  VStack(Dz, Dr)

\* Curl that lands on R-faces
CurlCr(m) ==
    LET Dt_r == kron3(ddx(nCz(m)), speye(nCy(m)), speye(nCx(m)))
        Dz_r0 == Kron(ddxz(m), speye(nCx(m)))
        Dz_r1 == HStack(spzeros(nCx(m) * nCy(m), 1), Dz_r0)
        Dz_r == Kron(speye(nCz(m)), Dz_r1)
        O1 == spzeros(nFx(m), nEx(m))
    IN  HStack(HStack(O1, MatNeg(Dt_r)), Dz_r)

\* Curl that lands on T-faces
CurlCt(m) ==
    LET Dr_t == kron3(ddx(nCz(m)), speye(nCy(m)), speye(nCx(m)))
        O2 == spzeros(nFy(m), nEy(m))
        ddxr == ddx(nCx(m))
        Ddxr == Kron(speye(nCy(m)), ColSlice(ddxr, 1, nCx(m) + 1))
        Dz_t == Kron(speye(nCz(m)), HStack(wrap_z(m), Ddxr))
    IN  HStack(HStack(Dr_t, O2), MatNeg(Dz_t))

\* Curl that lands on the Z-faces
CurlCz(m) ==
    LET Dr_z == kron3(speye(nCz(m) + 1), ddxz(m), speye(nCx(m)))
        ddxt == ColSlice(ddx(nCx(m)), 1, nCx(m) + 1)
        Dt_z == kron3(speye(nCz(m) + 1), speye(nCy(m)), ddxt)
        O3 == spzeros(nFz(m), nEz(m))
    IN  HStack(HStack(MatNeg(Dr_z), Dt_z), O3)

\* vstack([Cr, Ct, Cz])
CurlStencilFull(m) == VStack(VStack(CurlCr(m), CurlCt(m)), CurlCz(m))

\* the body of edgeCurl after the cache test, given self.area and self.edge:
\* utils.sdiag(1/A) * stencil * utils.sdiag(E)
BuildEdgeCurl(m, A, E) ==
    LET C == IF isSymmetric(m) THEN CurlStencilSym(m) ELSE CurlStencilFull(m)
    IN  MatMul(MatMul(sdiagInv(A), C), sdiag(E))

\* ------------------------------------------------------------ averaging
\* utils.av(n)[:, 1:] with its entry [0, 0] left at 0.5
avRNoPin(m) == ColSlice(av(nCx(m)), 1, nCx(m) + 1)

\* utils.av(n)[:, 1:] with its entry [0, 0] set to 1
avR(m) == SetEntry(ColSlice(av(nCx(m)), 1, nCx(m) + 1), 1, 1, QInt(1))

BuildAveE2CC(m) ==
    IF isSymmetric(m) THEN Kron(av(nCz(m)), avR(m)) ELSE NotImplErr

\* aveF2CC without its test of the mode
BuildAveF2CCAnyMesh(m) ==
    MatScale(Q(1, 2), HStack(Kron(speye(nCz(m)), avR(m)),
                             Kron(av(nCz(m)), speye(nCx(m)))))

BuildAveF2CC(m) ==
    IF isSymmetric(m)
    THEN MatScale(Q(1, 2), HStack(Kron(speye(nCz(m)), avR(m)),
                                  Kron(av(nCz(m)), speye(nCx(m)))))
    ELSE NotImplErr

BuildAveF2CCV(m) ==
    IF isSymmetric(m)
    THEN BlockDiag(Kron(speye(nCz(m)), avR(m)), Kron(av(nCz(m)), speye(nCx(m))))
    ELSE NotImplErr


\* ------------------------------------------------------------ the cache
\* the attributes _edge, _area, ... behind the cached properties
SlotNames ==
    {"edge", "area", "vol", "faceDiv", "faceDivx", "faceDivy", "faceDivz",
     "edgeCurl", "aveE2CC", "aveE2CCV", "aveF2CC", "aveF2CCV"}

\* A cache st is a record [slot, built]: the value of every attribute (None
\* while unset) and how many times each has been assigned.
EmptyCache == [slot |-> [q \in SlotNames |-> None], built |-> [q \in SlotNames |-> 0]]

\* a cache test that never finds the attribute
IsUnsetAlways(st, q) == TRUE

\* getattr(self, '_q', None) is None
IsUnset(st, q) == st.slot[q] = None

\* self._q = v
Put(st, q, v) ==
    [slot |-> [st.slot EXCEPT ![q] = v], built |-> [st.built EXCEPT ![q] = @ + 1]]

\* Every property below is an operator from the mesh and the cache to the
\* record [st, v] of the cache it leaves and the value it returns or the
\* exception it raises.
Out(st, v) == [st |-> st, v |-> v]

\* assign v to the attribute q and return it, unless v is an exception
PutOut(st, q, v) == IF IsErr(v) THEN Out(st, v) ELSE Out(Put(st, q, v), v)

GetEdge(m, st) ==
    IF IsUnset(st, "edge") THEN PutOut(st, "edge", BuildEdge(m))
    ELSE Out(st, st.slot["edge"])

GetArea(m, st) ==
    IF IsUnset(st, "area") THEN PutOut(st, "area", BuildArea(m))
    ELSE Out(st, st.slot["area"])

GetVol(m, st) ==
    IF IsUnset(st, "vol") THEN PutOut(st, "vol", BuildVol(m))
    ELSE Out(st, st.slot["vol"])

\* the body of a component divergence after its cache test: the stencil D,
\* then S from self.area, then V = self.vol, then the scaled product
FaceDivComp(m, st, q, D, outType) ==
    IF IsErr(D) THEN Out(st, D)
    ELSE LET a == GetArea(m, st)
             S == rF(m, a.v, outType)
         IN  IF IsErr(S) THEN Out(a.st, S)
             ELSE LET v == GetVol(m, a.st)
                  IN  PutOut(v.st, q, ScaleDiv(v.v, D, S))

GetFaceDivx(m, st) ==
    IF IsUnset(st, "faceDivx")
    THEN FaceDivComp(m, st, "faceDivx", faceDivxStencil(m), "Fx")
    ELSE Out(st, st.slot["faceDivx"])

GetFaceDivy(m, st) ==
    IF IsUnset(st, "faceDivy")
    THEN FaceDivComp(m, st, "faceDivy", faceDivyStencil(m), "Fy")
    ELSE Out(st, st.slot["faceDivy"])

GetFaceDivz(m, st) ==
    IF IsUnset(st, "faceDivz")
    THEN FaceDivComp(m, st, "faceDivz", faceDivzStencil(m), "Fz")
    ELSE Out(st, st.slot["faceDivz"])

\* the body of faceDiv between its cache test and its assignment: the
\* component properties it reads and the block matrix D
FaceDivBody(m, st) ==
    LET d1 == GetFaceDivx(m, st)
    IN  IF IsErr(d1.v) THEN d1
        ELSE LET d3 == GetFaceDivz(m, d1.st)
             IN  IF IsErr(d3.v) THEN d3
                 ELSE IF isSymmetric(m)
                      THEN Out(d3.st, BuildFaceDiv(m, d1.v, None, d3.v))
                      ELSE LET d2 == GetFaceDivy(m, d3.st)
                           IN  IF IsErr(d2.v) THEN d2
                               ELSE Out(d2.st, BuildFaceDiv(m, d1.v, d2.v, d3.v))

GetFaceDiv(m, st) ==
    IF IsUnset(st, "faceDiv")
    THEN LET b == FaceDivBody(m, st) IN PutOut(b.st, "faceDiv", b.v)
    ELSE Out(st, st.slot["faceDiv"])

\* the body of edgeCurl between its cache test and its assignment
EdgeCurlBody(m, st) ==
    LET a == GetArea(m, st)
        e == GetEdge(m, a.st)
    IN  Out(e.st, BuildEdgeCurl(m, a.v, e.v))

GetEdgeCurl(m, st) ==
    IF IsUnset(st, "edgeCurl")
    THEN LET b == EdgeCurlBody(m, st) IN PutOut(b.st, "edgeCurl", b.v)
    ELSE Out(st, st.slot["edgeCurl"])

GetAveE2CC(m, st) ==
    IF IsUnset(st, "aveE2CC") THEN PutOut(st, "aveE2CC", BuildAveE2CC(m))
    ELSE Out(st, st.slot["aveE2CC"])

\* returns self.aveE2CC on a symmetric mesh and assigns nothing
GetAveE2CCV(m, st) ==
    IF IsUnset(st, "aveE2CCV")
    THEN IF isSymmetric(m) THEN GetAveE2CC(m, st) ELSE Out(st, NotImplErr)
    ELSE Out(st, st.slot["aveE2CCV"])

GetAveF2CC(m, st) ==
    IF IsUnset(st, "aveF2CC") THEN PutOut(st, "aveF2CC", BuildAveF2CC(m))
    ELSE Out(st, st.slot["aveF2CC"])

GetAveF2CCV(m, st) ==
    IF IsUnset(st, "aveF2CCV") THEN PutOut(st, "aveF2CCV", BuildAveF2CCV(m))
    ELSE Out(st, st.slot["aveF2CCV"])

\* ------------------------------------------------------- the gradients
\* what reading cellGrad, nodalGrad or nodalLaplacian ends in
GetCellGrad(m) == NotImplErr

GetNodalGrad(m) == IF isSymmetric(m) THEN None ELSE NotImplErr

GetNodalLaplacian(m) == NotImplErr

\* -------------------------------------------------------- interpolation
\* A point of a loc array is a record [at, inside, theta]: the grid entry of
\* the requested location it coincides with (the first or the last one),
\* whether it lies inside the mesh, and its polar angle.
NameErr == [kind |-> "err", what |-> "NameError"]
ExceptionErr == [kind |-> "err", what |-> "Exception"]

\* utils.interpmat(loc, *tensor) on a grid of n entries: one row per point,
\* one-hot at the grid entry the point coincides with
interpmat(loc, n) ==
    Mat(Len(loc), n,
        [p \in 1..Len(loc) |->
            IF n = 0 THEN <<>>
            ELSE ((IF loc[p].at = "first" THEN 1 ELSE n) :> QInt(1))])

CCVTypes == {"CCVx", "CCVy", "CCVz"}

\* BaseTensorMesh._getInterpolationMat(loc, locType) for points inside the
\* mesh: the interpolation on the grid of locType, in the column block of
\* its component among the faces or the edges
baseGetInterpolationMat(m, loc, locType) ==
    LET np == Len(loc)
        three(A, B, C) == HStack(HStack(A, B), C)
    IN  CASE locType = "CC" -> interpmat(loc, nC(m))
          [] locType = "N" -> interpmat(loc, Prod3(vnN(m)))
          [] locType = "Fx" ->
                three(interpmat(loc, nFx(m)), spzeros(np, nFy(m)), spzeros(np, nFz(m)))
          [] locType = "Fy" ->
                three(spzeros(np, nFx(m)), interpmat(loc, nFy(m)), spzeros(np, nFz(m)))
          [] locType = "Fz" ->
                three(spzeros(np, nFx(m)), spzeros(np, nFy(m)), interpmat(loc, nFz(m)))
          [] locType = "Ex" ->
                three(interpmat(loc, nEx(m)), spzeros(np, nEy(m)), spzeros(np, nEz(m)))
          [] locType = "Ey" ->
                three(spzeros(np, nEx(m)), interpmat(loc, nEy(m)), spzeros(np, nEz(m)))
          [] locType = "Ez" ->
                three(spzeros(np, nEx(m)), spzeros(np, nEy(m)), interpmat(loc, nEz(m)))

\* CylMesh.getInterpolationMat(loc, locType, zerosOutside)
getInterpolationMat(m, loc, locType, zerosOutside) ==
    IF isSymmetric(m) /\ locType \in {"Ex", "Ez", "Fy"} THEN ExceptionErr
    ELSE IF locType \in CCVTypes
    THEN LET Q0 == interpmat(loc, nC(m))
             Z == spzeros(Len(loc), nC(m))
             Q1 == CASE locType = "CCVx" -> HStack(Q0, Z)
                     [] locType = "CCVy" -> Q0
                     [] locType = "CCVz" -> HStack(Z, Q0)
         IN  IF zerosOutside THEN NameErr ELSE Q1
    ELSE baseGetInterpolationMat(m, loc, locType)

\* cos and sin of an angle that is a multiple of a quarter turn
Cos4(t) == CASE t = 0 -> 1 [] t = TwoPi \div 4 -> 0 [] t = Pi -> -1 [] OTHER -> 0
Sin4(t) == CASE t = 0 -> 0 [] t = TwoPi \div 4 -> 1 [] t = Pi -> 0 [] OTHER -> -1

ScalarTypes == {"CC", "N", "Fz", "Ez"}

\* proj of getInterpolationMatCartMesh for locTypeTo = locType: 1 for the
\* scalar locations, otherwise the radial unit vector (faces) or the
\* azimuthal one (edges) dotted with the Cartesian unit normal or tangent
projOf(grid, locType) ==
    [p \in 1..Len(grid) |->
        LET t == grid[p].theta
        IN  CASE locType \in ScalarTypes -> 1
              [] locType = "Fx" -> Cos4(t)
              [] locType = "Fy" -> Sin4(t)
              [] locType = "Ex" -> -Sin4(t)
              [] locType = "Ey" -> Cos4(t)]

\* interpType: Fy is read from the radial faces, Ex from the azimuthal edges
interpTypeOf(locType) ==
    CASE locType = "Fy" -> "Fx"
      [] locType = "Ex" -> "Ey"
      [] OTHER -> locType

\* getInterpolationMatCartMesh for one component
cartMeshComponent(m, grid, locType) ==
    IF ~isSymmetric(m) THEN AssertErr
    ELSE LET Pc2r == getInterpolationMat(m, grid, interpTypeOf(locType), FALSE)
         IN  MatMul(sdiag(Vec(projOf(grid, locType))), Pc2r)

\* CylMesh.getInterpolationMatCartMesh(Mrect, locType), the grids of Mrect
\* of every location being the points of grid
getInterpolationMatCartMesh(m, grid, locType) ==
    IF ~isSymmetric(m) THEN AssertErr
    ELSE CASE locType = "F" ->
                VStack(VStack(cartMeshComponent(m, grid, "Fx"),
                              cartMeshComponent(m, grid, "Fy")),
                       cartMeshComponent(m, grid, "Fz"))
           [] locType = "E" ->
                VStack(VStack(cartMeshComponent(m, grid, "Ex"),
                              cartMeshComponent(m, grid, "Ey")),
                       spzeros(Len(grid), nE(m)))
           [] OTHER -> cartMeshComponent(m, grid, locType)

\* ------------------------------------------------------------- the state
VARIABLES
    pc,               \* "new" before CylMesh(...), then "ready" or "failed"
    mesh,             \* the mesh object: [dim, hx, hy, hz]
    cartesianOrigin,  \* self.cartesianOrigin
    slot,             \* the cached attributes
    built,            \* how many times each attribute has been assigned
    op,               \* the last call made on the mesh
    arg,              \* its arguments
    ret,              \* what it returned or raised
    raceOp,           \* the property two threads are reading together
    thr,              \* each thread's position, local D and returned value
    inv               \* the Inversion object and the position of its run()

meshVars == <<pc, mesh, cartesianOrigin, slot, built, op, arg, ret, raceOp, thr>>
vars == <<pc, mesh, cartesianOrigin, slot, built, op, arg, ret, raceOp, thr, inv>>

NoMesh == [dim |-> 0, hx |-> <<>>, hy |-> <<>>, hz |-> <<>>]
NoArg == [kind |-> "none"]
Threads == {1, 2}
Idle == [pc |-> "idle", D |-> None, ret |-> None]
\* an attribute that has not been assigned, or holds None
Unset == <<>>
\* an Inversion whose run() has not been called: maxIter and phi_d_target
\* are its settings, iter, beta and phi_d_last the attributes _iter, _beta
\* and _phi_d_last; evals counts the evalFunction calls of the current
\* minimize, calls the minimize calls, betas lists the _beta of each of
\* them, skipped tells whether a minimize returned without evaluating
NoRun ==
    [pc |-> "new", maxIter |-> 0, phi_d_target |-> 0, iter |-> 0, beta |-> Unset,
     phi_d_last |-> Unset, evals |-> 0, calls |-> 0, betas |-> <<>>,
     skipped |-> FALSE, ret |-> None]

Init ==
    /\ pc = "new"
    /\ mesh = NoMesh
    /\ cartesianOrigin = <<>>
    /\ slot = EmptyCache.slot
    /\ built = EmptyCache.built
    /\ op = ""
    /\ arg = NoArg
    /\ ret = None
    /\ raceOp = ""
    /\ thr = [t \in Threads |-> Idle]
    /\ inv = NoRun

\* ------------------------------------------------------------- the inputs
\* radial widths 2, 4, 6, ... and axial widths 1, 2, 3, ...
HxOf(n) == [i \in 1..n |-> 2 * i]
HzOf(n) == [k \in 1..n |-> k]

\* azimuthal widths 1, 2, ..., the last one making the sum s
HyOf(n, s) == [j \in 1..n |-> IF j < n THEN j ELSE s - ((n - 1) * n) \div 2]

\* the azimuthal width vectors of n cells offered to the constructor: sums
\* TwoPi - 1, TwoPi and TwoPi + 1, all widths positive
HySet(n) ==
    {hy \in {HyOf(n, s) : s \in (TwoPi - 1)..(TwoPi + 1)} : \A j \in 1..n : hy[j] > 0}

zeros(n) == [i \in 1..n |-> 0]

\* None or an array of 2, 3 or 4 entries
OriginSet == {None} \cup {Vec(zeros(n)) : n \in 2..4}

\* -------------------------------------------------------- the constructor
\* __init__ without its first assertion
ConstructOkNoSum(dim, hy, co) == Len(IF co = None THEN zeros(dim) ELSE co.v) = dim

\* the two assertions of __init__
ConstructOk(dim, hy, co) ==
    /\ Abs(SumSeq(hy) - TwoPi) < Tol
    /\ Len(IF co = None THEN zeros(dim) ELSE co.v) = dim

\* CylMesh(h, x0, cartesianOrigin) with h of 2 or 3 width vectors of at most
\* NX, NY and NZ cells
ConstructFrom(NX, NY, NZ) ==
    /\ pc = "new"
    /\ \E dim \in {2, 3}, nx \in 1..NX, ny \in 1..NY, co \in OriginSet :
       \E nz \in IF dim = 3 THEN 1..NZ ELSE {0}, hy \in HySet(ny) :
          LET m == [dim |-> dim, hx |-> HxOf(nx), hy |-> hy, hz |-> HzOf(nz)]
          IN  /\ op' = "__init__"
              /\ arg' = [h |-> m, cartesianOrigin |-> co]
              /\ IF ConstructOk(dim, hy, co)
                 THEN /\ pc' = "ready"
                      /\ mesh' = m
                      /\ cartesianOrigin' = IF co = None THEN zeros(dim) ELSE co.v
                      /\ ret' = None
                 ELSE /\ pc' = "failed"
                      /\ ret' = AssertErr
                      /\ UNCHANGED <<mesh, cartesianOrigin>>
    /\ UNCHANGED <<slot, built, raceOp, thr, inv>>

Construct == ConstructFrom(MaxNCx, MaxNCy, MaxNCz)

ConstructForCounts == ConstructFrom(CntNCx, CntNCy, CntNCz)

\* ------------------------------------------------------------ the counts
\* the count properties of a 3-dimensional mesh, read together
Counts(m) ==
    [isSymmetric |-> isSymmetric(m), nC |-> nC(m),
     nNx |-> nNx(m), nNy |-> nNy(m), nNz |-> nNz(m),
     vnFx |-> vnFx(m), vnEy |-> vnEy(m), vnEz |-> vnEz(m),
     nFx |-> nFx(m), nFy |-> nFy(m), nFz |-> nFz(m), nF |-> nF(m),
     nEx |-> nEx(m), nEy |-> nEy(m), nEz |-> nEz(m), nE |-> nE(m)]

QueryCounts ==
    /\ pc = "ready"
    /\ mesh.dim = 3
    /\ op' = "counts"
    /\ arg' = NoArg
    /\ ret' = Counts(mesh)
    /\ UNCHANGED <<pc, mesh, cartesianOrigin, slot, built, raceOp, thr, inv>>

\* -------------------------------------------------- the cached properties
\* one read of a property of a 3-dimensional mesh: r is its [st, v]
Access(q, r) ==
    /\ pc = "ready"
    /\ mesh.dim = 3
    /\ \E o \in {r} :
          /\ slot' = o.st.slot
          /\ built' = o.st.built
          /\ ret' = o.v
    /\ op' = q
    /\ arg' = NoArg
    /\ UNCHANGED <<pc, mesh, cartesianOrigin, raceOp, thr, inv>>

Cache == [slot |-> slot, built |-> built]

AccessEdge == Access("edge", GetEdge(mesh, Cache))
AccessArea == Access("area", GetArea(mesh, Cache))
AccessVol == Access("vol", GetVol(mesh, Cache))
AccessFaceDiv == Access("faceDiv", GetFaceDiv(mesh, Cache))
AccessFaceDivx == Access("faceDivx", GetFaceDivx(mesh, Cache))
AccessFaceDivy == Access("faceDivy", GetFaceDivy(mesh, Cache))
AccessFaceDivz == Access("faceDivz", GetFaceDivz(mesh, Cache))
AccessEdgeCurl == Access("edgeCurl", GetEdgeCurl(mesh, Cache))
AccessAveE2CC == Access("aveE2CC", GetAveE2CC(mesh, Cache))
AccessAveE2CCV == Access("aveE2CCV", GetAveE2CCV(mesh, Cache))
AccessAveF2CC == Access("aveF2CC", GetAveF2CC(mesh, Cache))
AccessAveF2CCV == Access("aveF2CCV", GetAveF2CCV(mesh, Cache))

\* ------------------------------------------------------ _deflationMatrix
\* the location tags tried: the nine of the assertion and two others
LocationTags == {"N", "F", "Fx", "Fy", "Fz", "E", "Ex", "Ey", "Ez", "CC", "Fw"}

CallDeflationMatrix ==
    /\ pc = "ready"
    /\ \E location \in LocationTags :
          /\ op' = "_deflationMatrix"
          /\ arg' = [location |-> location]
          /\ ret' = deflationMatrix(mesh, location)
    /\ UNCHANGED <<pc, mesh, cartesianOrigin, slot, built, raceOp, thr, inv>>

\* ---------------------------------------------------------- the gradients
GradientNames == {"cellGrad", "nodalGrad", "nodalLaplacian"}

\* one read of cellGrad, nodalGrad or nodalLaplacian
AccessGradient ==
    /\ pc = "ready"
    /\ \E q \in GradientNames :
          /\ op' = q
          /\ ret' = CASE q = "cellGrad" -> GetCellGrad(mesh)
                      [] q = "nodalGrad" -> GetNodalGrad(mesh)
                      [] q = "nodalLaplacian" -> GetNodalLaplacian(mesh)
    /\ arg' = NoArg
    /\ UNCHANGED <<pc, mesh, cartesianOrigin, slot, built, raceOp, thr, inv>>

\* ---------------------------------------------------------- interpolation
\* the arrays of 1..n elements of S
ArraysOf(S, n) == UNION {[1..k -> S] : k \in 1..n}

\* the points offered as loc: on the first grid entry, on the last one, and
\* beyond the last one outside the mesh
LocPoints ==
    {[at |-> "first", inside |-> TRUE, theta |-> 0],
     [at |-> "last", inside |-> TRUE, theta |-> 0],
     [at |-> "last", inside |-> FALSE, theta |-> 0]}

InterpTypes == {"CC", "N", "Fx", "Fy", "Fz", "Ex", "Ey", "Ez"} \cup CCVTypes

\* getInterpolationMat(loc, locType, zerosOutside) on a 3-dimensional mesh;
\* the calls that reach the base class are made with points inside the mesh
\* and zerosOutside = False
CallGetInterpolationMat ==
    /\ pc = "ready"
    /\ mesh.dim = 3
    /\ \E loc \in ArraysOf(LocPoints, MaxPts), locType \in InterpTypes,
          zerosOutside \in BOOLEAN :
          /\ locType \notin CCVTypes =>
                (~zerosOutside /\ \A p \in 1..Len(loc) : loc[p].inside)
          /\ op' = "getInterpolationMat"
          /\ arg' = [loc |-> loc, locType |-> locType, zerosOutside |-> zerosOutside]
          /\ ret' = getInterpolationMat(mesh, loc, locType, zerosOutside)
    /\ UNCHANGED <<pc, mesh, cartesianOrigin, slot, built, raceOp, thr, inv>>

\* the points of the grids of the Cartesian mesh, all inside the mesh, at
\* angle 0, a quarter turn and a half turn
GridPoints ==
    {[at |-> "first", inside |-> TRUE, theta |-> 0],
     [at |-> "last", inside |-> TRUE, theta |-> TwoPi \div 4],
     [at |-> "first", inside |-> TRUE, theta |-> Pi]}

CartTypes == {"CC", "N", "Fx", "Fy", "Fz", "Ex", "Ey", "Ez", "F", "E"}

\* getInterpolationMatCartMesh(Mrect, locType) on a 3-dimensional mesh
CallGetInterpolationMatCartMesh ==
    /\ pc = "ready"
    /\ mesh.dim = 3
    /\ \E grid \in ArraysOf(GridPoints, MaxPts), locType \in CartTypes :
          /\ op' = "getInterpolationMatCartMesh"
          /\ arg' = [grid |-> grid, locType |-> locType]
          /\ ret' = getInterpolationMatCartMesh(mesh, grid, locType)
    /\ UNCHANGED <<pc, mesh, cartesianOrigin, slot, built, raceOp, thr, inv>>

Next ==
    \/ Construct
    \/ AccessEdge
    \/ AccessArea
    \/ AccessVol
    \/ AccessFaceDiv
    \/ AccessFaceDivx
    \/ AccessFaceDivy
    \/ AccessFaceDivz
    \/ AccessEdgeCurl
    \/ AccessAveE2CC
    \/ AccessAveE2CCV
    \/ AccessAveF2CC
    \/ AccessAveF2CCV

Spec == Init /\ [][Next]_vars

\* the calls that read no cache, on meshes of up to CntNCx x CntNCy x CntNCz cells
NextQueries ==
    \/ ConstructForCounts
    \/ QueryCounts
    \/ CallDeflationMatrix
    \/ AccessGradient

SpecQueries == Init /\ [][NextQueries]_vars

\* the interpolation calls
NextInterp ==
    \/ Construct
    \/ CallGetInterpolationMat
    \/ CallGetInterpolationMatCartMesh

SpecInterp == Init /\ [][NextInterp]_vars

\* ---------------------------------------------------------- Inversion.run
AttributeErr == [kind |-> "err", what |-> "AttributeError"]

\* getBeta that never cools
getBetaNoCooling(b) == QInt(beta0)

\* getBeta, from the current _beta
getBeta(b) == IF b = Unset THEN QInt(beta0) ELSE QMul(b, Q(1, beta_coolingFactor))

\* stoppingCriteria, once _phi_d_last exists
stoppingCriteria(r) == r.iter >= r.maxIter \/ r.phi_d_last[1] <= r.phi_d_target

\* the data misfits evalFunction may compute, and the targets tried
PhiValues == {1, 2, 3}
TargetValues == {2}

\* run(m0) is called: _iter = 0, _beta = None
RunStart ==
    /\ inv.pc = "new"
    /\ \E mi \in (-1)..MaxIterBound, tg \in TargetValues :
          inv' = [NoRun EXCEPT !.pc = "getBeta", !.maxIter = mi, !.phi_d_target = tg]
    /\ UNCHANGED meshVars

\* self._beta = self.getBeta(), then opt.minimize is entered
RunGetBeta ==
    /\ inv.pc = "getBeta"
    /\ inv' = [inv EXCEPT !.pc = "minimize", !.beta = getBeta(inv.beta), !.evals = 0,
                          !.betas = Append(inv.betas, getBeta(inv.beta))]
    /\ UNCHANGED meshVars

\* opt.minimize calls evalFunction: _phi_d_last is assigned
MinimizeEval ==
    /\ inv.pc = "minimize"
    /\ inv.evals < MaxEvals
    /\ \E phi \in PhiValues :
          inv' = [inv EXCEPT !.phi_d_last = <<phi>>, !.evals = @ + 1]
    /\ UNCHANGED meshVars

\* opt.minimize returns
MinimizeReturn ==
    /\ inv.pc = "minimize"
    /\ inv' = [inv EXCEPT !.pc = "stop", !.calls = @ + 1,
                          !.skipped = @ \/ inv.evals = 0]
    /\ UNCHANGED meshVars

\* if self.stoppingCriteria(): break, else self._iter += 1; the test raises
\* when _phi_d_last was never assigned
RunStop ==
    /\ inv.pc = "stop"
    /\ inv' = IF inv.phi_d_last = Unset
              THEN [inv EXCEPT !.pc = "raised", !.ret = AttributeErr]
              ELSE IF stoppingCriteria(inv) THEN [inv EXCEPT !.pc = "returned"]
              ELSE [inv EXCEPT !.pc = "getBeta", !.iter = @ + 1]
    /\ UNCHANGED meshVars

NextRun ==
    \/ RunStart
    \/ RunGetBeta
    \/ MinimizeEval
    \/ MinimizeReturn
    \/ RunStop

\* run() is not suspended for ever: every step that can be taken is taken
SpecRun == Init /\ [][NextRun]_vars /\ WF_vars(NextRun)

\* ---------------------------------------- two threads reading one property
\* The property body in four steps per thread: the cache test, the
\* construction of D (the properties it reads on the way are read in one
\* step each), the assignment self._q = D, and return self._q.
RaceOps == {"faceDiv", "edgeCurl"}

\* the construction of D for the property q
Body(q, m, st) == IF q = "faceDiv" THEN FaceDivBody(m, st) ELSE EdgeCurlBody(m, st)

\* an assignment that adds D to what the attribute already holds
StoreAdded(old, D) == IF old = None THEN D ELSE MatAdd(old, D)

\* self._q = D: the value of the attribute after the assignment
Store(old, D) == D

\* both threads call the property q, not read before, of a 3-dimensional mesh
RaceStart ==
    /\ pc = "ready"
    /\ mesh.dim = 3
    /\ raceOp = ""
    /\ \E q \in RaceOps :
          /\ slot[q] = None
          /\ raceOp' = q
    /\ thr' = [t \in Threads |-> [Idle EXCEPT !.pc = "test"]]
    /\ UNCHANGED <<pc, mesh, cartesianOrigin, slot, built, op, arg, ret, inv>>

\* if getattr(self, '_q', None) is None:
ThreadTest(t) ==
    /\ thr[t].pc = "test"
    /\ thr' = [thr EXCEPT ![t].pc = IF IsUnset(Cache, raceOp) THEN "build" ELSE "return"]
    /\ UNCHANGED <<pc, mesh, cartesianOrigin, slot, built, op, arg, ret, raceOp, inv>>

\* the statements that compute D
ThreadBuild(t) ==
    /\ thr[t].pc = "build"
    /\ \E b \in {Body(raceOp, mesh, Cache)} :
           /\ slot' = b.st.slot
           /\ built' = b.st.built
           /\ thr' = [thr EXCEPT ![t] =
                        IF IsErr(b.v) THEN [pc |-> "done", D |-> None, ret |-> b.v]
                        ELSE [pc |-> "store", D |-> b.v, ret |-> None]]
    /\ UNCHANGED <<pc, mesh, cartesianOrigin, op, arg, ret, raceOp, inv>>

\* self._q = D
ThreadStore(t) ==
    /\ thr[t].pc = "store"
    /\ slot' = [slot EXCEPT ![raceOp] = Store(slot[raceOp], thr[t].D)]
    /\ built' = [built EXCEPT ![raceOp] = @ + 1]
    /\ thr' = [thr EXCEPT ![t].pc = "return"]
    /\ UNCHANGED <<pc, mesh, cartesianOrigin, op, arg, ret, raceOp, inv>>

\* return self._q
ThreadReturn(t) ==
    /\ thr[t].pc = "return"
    /\ thr' = [thr EXCEPT ![t].pc = "done", ![t].ret = slot[raceOp]]
    /\ UNCHANGED <<pc, mesh, cartesianOrigin, slot, built, op, arg, ret, raceOp, inv>>

NextRace ==
    \/ Construct
    \/ RaceStart
    \/ \E t \in Threads : ThreadTest(t)
    \/ \E t \in Threads : ThreadBuild(t)
    \/ \E t \in Threads : ThreadStore(t)
    \/ \E t \in Threads : ThreadReturn(t)

SpecRace == Init /\ [][NextRace]_vars

\* =============================================================== claims
\* a matrix of the given shape without a nonzero entry
IsZeroMat(A, n, k) ==
    /\ IsMat(A)
    /\ A.nr = n
    /\ A.nc = k
    /\ \A r \in 1..A.nr : DOMAIN A.row[r] = {}

\* the unscaled divergence stencil [D_r | D_theta | D_z] ([D_r | D_z] on a
\* symmetric mesh)
DivStencil(m) ==
    BuildFaceDiv(m, faceDivxStencil(m), faceDivyStencil(m), faceDivzStencil(m))

CurlStencil(m) == IF isSymmetric(m) THEN CurlStencilSym(m) ELSE CurlStencilFull(m)

\* C1: once faceDiv and edgeCurl are both built, on a symmetric or a full
\* mesh, the product faceDiv * edgeCurl has no nonzero entry (nC rows, nE
\* columns), and neither has the product of the unscaled stencils.
C1_DivCurlZero ==
    (slot["faceDiv"] # None /\ slot["edgeCurl"] # None) =>
        /\ IsZeroMat(MatMul(slot["faceDiv"], slot["edgeCurl"]), nC(mesh), nE(mesh))
        /\ IsZeroMat(MatMul(DivStencil(mesh), CurlStencil(mesh)), nC(mesh), nE(mesh))

\* a full mesh of 2 x 2 x 2 cells or more with both operators built, each
\* holding nonzero entries in every row
C1_Witness ==
    /\ slot["faceDiv"] # None
    /\ slot["edgeCurl"] # None
    /\ Len(mesh.hx) >= 2 /\ Len(mesh.hy) >= 2 /\ Len(mesh.hz) >= 2
    /\ \A r \in 1..slot["faceDiv"].nr : DOMAIN slot["faceDiv"].row[r] # {}
    /\ \A r \in 1..slot["edgeCurl"].nr : DOMAIN slot["edgeCurl"].row[r] # {}
\* C2: CylMesh(...) produces a mesh exactly when |sum(hy) - 2*pi| is below
\* the tolerance and the cartesianOrigin given has dim entries; then the
\* mesh holds the widths as given, and otherwise the call raises and there
\* is no mesh.
C2_ConstructChecked ==
    op = "__init__" =>
        LET h == arg.h
            co == arg.cartesianOrigin
            good == /\ SumSeq(h.hy) - TwoPi < Tol
                    /\ TwoPi - SumSeq(h.hy) < Tol
                    /\ (co = None \/ Len(co.v) = h.dim)
        IN  /\ (pc = "ready") <=> good
            /\ pc = "ready" => (mesh = h /\ ~IsErr(ret) /\ Len(cartesianOrigin) = h.dim)
            /\ pc # "ready" => (pc = "failed" /\ mesh = NoMesh /\ IsErr(ret))

\* a constructor call refused for its azimuthal widths alone
C2_Witness ==
    /\ op = "__init__"
    /\ pc = "failed"
    /\ SumSeq(arg.h.hy) # TwoPi
    /\ arg.cartesianOrigin = None

\* C3: isSymmetric iff nCy = 1; nNx = nCx and nNy = 0 on a symmetric mesh,
\* nNx = nCx + 1 and nNy = nCy otherwise; nCx*nCy*nCz radial faces in both
\* modes; nNx*nNy*nCz = 0 z-edges on a symmetric mesh and nCx*nCy*nCz + nCz
\* otherwise; a 5 x 4 x 3 mesh is not symmetric, has nNx = 6 and 60 cells.
C3_Counts ==
    op = "counts" =>
        LET x == Len(mesh.hx)
            y == Len(mesh.hy)
            z == Len(mesh.hz)
        IN  /\ ret.isSymmetric <=> (y = 1)
            /\ ret.isSymmetric =>
                  /\ ret.nNx = x
                  /\ ret.nNy = 0
                  /\ ret.nEz = ret.nNx * ret.nNy * z
                  /\ ret.nEz = 0
            /\ ~ret.isSymmetric =>
                  /\ ret.nNx = x + 1
                  /\ ret.nNy = y
                  /\ ret.nEz = x * y * z + z
            /\ ret.nFx = x * y * z
            /\ (x = 5 /\ y = 4 /\ z = 3) =>
                  (~ret.isSymmetric /\ ret.nNx = 6 /\ ret.nC = 60)

\* the counts of a 5 x 4 x 3 mesh have been read
C3_Witness ==
    /\ op = "counts"
    /\ Len(mesh.hx) = 5 /\ Len(mesh.hy) = 4 /\ Len(mesh.hz) = 3
    /\ ret.nC = 60

\* C4: reading edge, area, vol, faceDiv, faceDivx, faceDivz and edgeCurl
\* (and faceDivy on a full mesh) never raises, so every block product fits;
\* faceDiv is nC x (nFx+nFy+nFz), nC x (nFx+nFz) on a symmetric mesh;
\* edgeCurl is nF x nE, with nE = nCx*(nCz+1) and nF = nCx*nCz + nCx*(nCz+1)
\* on a symmetric mesh and nEz = nCx*nCy*nCz + nCz on a full one; area, edge
\* and vol have nF, nE and nC entries.
C4_Shapes ==
    pc = "ready" /\ mesh.dim = 3 =>
        LET x == Len(mesh.hx)
            y == Len(mesh.hy)
            z == Len(mesh.hz)
            sym == y = 1
            cells == x * y * z
            faces == IF sym THEN x * z + x * (z + 1)
                     ELSE x * y * z + x * y * z + x * y * (z + 1)
            edges == IF sym THEN x * (z + 1)
                     ELSE x * y * (z + 1) + x * y * (z + 1) + (x * y * z + z)
        IN  /\ op \in {"edge", "area", "vol", "faceDiv", "faceDivx", "faceDivz", "edgeCurl"}
                  => ~IsErr(ret)
            /\ (op = "faceDivy" /\ ~sym) => ~IsErr(ret)
            /\ slot["faceDiv"] # None =>
                  (slot["faceDiv"].nr = cells /\ slot["faceDiv"].nc = faces)
            /\ slot["edgeCurl"] # None =>
                  (slot["edgeCurl"].nr = faces /\ slot["edgeCurl"].nc = edges)
            /\ slot["area"] # None => Len(slot["area"].v) = faces
            /\ slot["edge"] # None => Len(slot["edge"].v) = edges
            /\ slot["vol"] # None => Len(slot["vol"].v) = cells
            /\ faces = nF(mesh) /\ edges = nE(mesh) /\ cells = nC(mesh)

\* edgeCurl has just been built on a full mesh that holds faceDiv
C4_Witness ==
    /\ op = "edgeCurl"
    /\ IsMat(ret)
    /\ slot["faceDiv"] # None
    /\ Len(mesh.hy) >= 2
    /\ Len(mesh.hx) >= 2

\* the radius of the outer face of radial cell i (0 for i = 0)
Radius(m, i) == SumSeq(SubSeq(m.hx, 1, i))

\* the net-flux row of cell (i, j, k): the face columns of the cell with
\* +-(face area)/(cell volume), from the geometry of the cell
FluxRow(m, i, j, k) ==
    LET x == Len(m.hx)
        y == Len(m.hy)
        z == Len(m.hz)
        sym == y = 1
        ro == Radius(m, i)
        ri == Radius(m, i - 1)
        ang == IF sym THEN TwoPi ELSE m.hy[j]
        Az == (ang * (ro * ro - ri * ri)) \div 2
        V == m.hz[k] * Az
        cell(a, b, c) == (c - 1) * x * y + (b - 1) * x + a
        offT == x * y * z
        offZ == IF sym THEN x * y * z ELSE 2 * x * y * z
        rOut == (cell(i, j, k) :> Q(m.hz[k] * ang * ro, V))
        rIn == IF i = 1 THEN <<>>
               ELSE (cell(i - 1, j, k) :> Q(-(m.hz[k] * ang * ri), V))
        tPlus == IF sym THEN <<>>
                 ELSE ((offT + cell(i, (j % y) + 1, k)) :> Q(m.hz[k] * m.hx[i], V))
        tMinus == IF sym THEN <<>>
                  ELSE ((offT + cell(i, j, k)) :> Q(-(m.hz[k] * m.hx[i]), V))
        zTop == ((offZ + cell(i, j, k + 1)) :> Q(Az, V))
        zBot == ((offZ + cell(i, j, k)) :> Q(-Az, V))
    IN  rOut @@ rIn @@ tPlus @@ tMinus @@ zTop @@ zBot

\* C5: every row of faceDiv is the flux balance of its cell: +A/V on the
\* outer radial, theta-plus and top face, -A/V on the inner radial,
\* theta-minus and bottom face, and nothing else; the innermost cell has no
\* inner radial term, the theta-plus face of the last azimuthal cell is the
\* theta-minus face of the first, and a symmetric mesh has no theta terms.
C5_FluxBalance ==
    slot["faceDiv"] # None =>
        \A i \in 1..Len(mesh.hx), j \in 1..Len(mesh.hy), k \in 1..Len(mesh.hz) :
            slot["faceDiv"].row[(k - 1) * Len(mesh.hx) * Len(mesh.hy)
                                + (j - 1) * Len(mesh.hx) + i]
                = FluxRow(mesh, i, j, k)

\* faceDiv is built on a full mesh with an inner and an outer radial cell and
\* a seam
C5_Witness ==
    /\ slot["faceDiv"] # None
    /\ Len(mesh.hx) >= 2
    /\ Len(mesh.hy) >= 2
    /\ Cardinality(DOMAIN slot["faceDiv"].row[1]) = 5
    /\ Cardinality(DOMAIN slot["faceDiv"].row[slot["faceDiv"].nr]) = 6
\* the tags for which _deflationMatrix has code that returns a matrix
MatrixTags == {"Fx", "Fy", "Fz", "Ez"}

\* C6 (as claimed): _deflationMatrix returns a matrix for each of N, F, Fx,
\* Fy, E, Ex, Ey (and Fz, Ez on a 3-dimensional mesh) and raises for every
\* other tag; it returns None for none of them.
C6_DeflationTotal ==
    op = "_deflationMatrix" =>
        IF arg.location \in {"N", "F", "Fx", "Fy", "E", "Ex", "Ey"}
                            \cup (IF mesh.dim = 3 THEN {"Fz", "Ez"} ELSE {})
        THEN IsMat(ret)
        ELSE IsErr(ret)

\* the sum of the entries of row r
RowSum(A, r) == QSum(DOMAIN A.row[r], A.row[r])

ReducedCount(m, tag) ==
    CASE tag = "Fx" -> nFx(m)
      [] tag = "Fy" -> nFy(m)
      [] tag = "Fz" -> nFz(m)
      [] tag = "Ez" -> nEz(m)

NaiveCount(m, tag) ==
    LET x == Len(m.hx)
        y == Len(m.hy)
        z == Len(m.hz)
    IN  CASE tag = "Fx" -> (x + 1) * y * z
          [] tag = "Fy" -> x * (y + 1) * z
          [] tag = "Fz" -> x * y * (z + 1)
          [] tag = "Ez" -> nNx(m) * nNy(m) * z

CachedQuantities ==
    {"edge", "area", "vol", "faceDiv", "faceDivx", "faceDivy", "faceDivz",
     "edgeCurl", "aveE2CC", "aveF2CC", "aveF2CCV"}

\* C9: in every step, every slot that is filled keeps its value and is not
\* assigned again; no slot is ever assigned twice, and a slot is filled
\* exactly when it has been assigned; a read of a cached quantity that does
\* not raise returns the value its slot holds.
C9_BuiltOnce ==
    [][/\ \A q \in SlotNames :
            slot[q] # None => (slot'[q] = slot[q] /\ built'[q] = built[q])
       /\ \A q \in SlotNames :
            /\ built'[q] <= 1
            /\ (built'[q] = 1) <=> (slot'[q] # None)
       /\ (op' \in CachedQuantities /\ ~IsErr(ret')) => ret' = slot'[op']
      ]_vars

\* faceDivx is read after faceDiv had filled it, from a cache that holds the
\* curl as well
C9_Witness ==
    /\ op = "faceDivx"
    /\ slot["faceDiv"] # None
    /\ slot["edgeCurl"] # None
    /\ built["faceDivx"] = 1
    /\ ret = slot["faceDivx"]
\* what one thread alone gets from the property q of the mesh m, read for the
\* first time
Sequential(q, m) ==
    IF q = "faceDiv" THEN GetFaceDiv(m, EmptyCache).v ELSE GetEdgeCurl(m, EmptyCache).v

\* C10: a thread that has returned from the property holds the matrix a
\* single sequential first read returns, whatever the interleaving, and once
\* both have returned the slot holds that matrix.
C10_RaceSameResult ==
    raceOp # "" =>
        /\ \A t \in Threads :
              thr[t].pc = "done" => thr[t].ret = Sequential(raceOp, mesh)
        /\ (\A t \in Threads : thr[t].pc = "done") =>
              slot[raceOp] = Sequential(raceOp, mesh)

\* both threads found the slot empty, both assigned it, both have returned
C10_Witness ==
    /\ raceOp = "faceDiv"
    /\ \A t \in Threads : thr[t].pc = "done" /\ IsMat(thr[t].D)
    /\ built["faceDiv"] = 2
    /\ Len(mesh.hy) >= 2

\* C11 (as claimed): reading cellGrad, nodalGrad or nodalLaplacian raises
\* NotImplementedError on every mesh and never returns a value.
C11_GradientsRaise ==
    op \in GradientNames => ret = NotImplErr

\* the four averaging operators
AveragingNames == {"aveE2CC", "aveE2CCV", "aveF2CC", "aveF2CCV"}

\* C12: on a full mesh (nCy >= 2) every read of aveE2CC, aveE2CCV, aveF2CC
\* or aveF2CCV raises NotImplementedError, whatever was read before, and the
\* read changes no slot: the four averaging slots stay empty and every other
\* slot keeps its value and its assignment count.
C12_AveragingRaises ==
    [][(pc = "ready" /\ Len(mesh.hy) >= 2 /\ op' \in AveragingNames) =>
          /\ ret' = NotImplErr
          /\ slot' = slot
          /\ built' = built
          /\ \A q \in AveragingNames : slot'[q] = None /\ built'[q] = 0
      ]_vars

\* aveF2CCV has raised on a full mesh whose divergence and curl are built
C12_Witness ==
    /\ op = "aveF2CCV"
    /\ ret = NotImplErr
    /\ Len(mesh.hy) >= 2
    /\ slot["faceDiv"] # None
    /\ slot["edgeCurl"] # None
    /\ slot["aveF2CCV"] = None

\* the sum of the volumes of the azimuthal cells of ring (i, k)
RingVolume(m, v, i, k) ==
    LET x == Len(m.hx)
        y == Len(m.hy)
    IN  SumSeq([j \in 1..y |-> v[(k - 1) * x * y + (j - 1) * x + i]])

\* C16: the cell volumes sum to pi * R^2 * H with R = sum(hx), H = sum(hz),
\* on symmetric and full meshes; the volumes of the azimuthal cells of every
\* ring add up to pi * (r_outer^2 - r_inner^2) * hz, which is the volume the
\* symmetric mesh of the same hx and hz gives that ring.
C16_TotalVolume ==
    slot["vol"] # None =>
        LET v == slot["vol"].v
            R == SumSeq(mesh.hx)
            H == SumSeq(mesh.hz)
            sym == BuildVol([mesh EXCEPT !.hy = <<TwoPi>>]).v
        IN  /\ Len(v) = nC(mesh)
            /\ SumSeq(v) = Pi * R * R * H
            /\ \A i \in 1..Len(mesh.hx), k \in 1..Len(mesh.hz) :
                  /\ RingVolume(mesh, v, i, k)
                        = Pi * (Radius(mesh, i) * Radius(mesh, i)
                                - Radius(mesh, i - 1) * Radius(mesh, i - 1)) * mesh.hz[k]
                  /\ RingVolume(mesh, v, i, k) = sym[(k - 1) * Len(mesh.hx) + i]

\* vol is built on a full mesh of unequal azimuthal widths and two rings
C16_Witness ==
    /\ slot["vol"] # None
    /\ Len(mesh.hx) >= 2
    /\ Len(mesh.hy) >= 2
    /\ mesh.hy[1] # mesh.hy[2]

\* the radial averaging stencil of cell i, shifted by off columns: weight 1
\* on the outer location of the innermost cell, 0.5 on the inner and the
\* outer location of every other cell
RadialStencil(i, off) ==
    IF i = 1 THEN ((off + 1) :> Q(1, 1))
    ELSE ((off + i - 1) :> Q(1, 2)) @@ ((off + i) :> Q(1, 2))

\* C17: on a symmetric mesh every row of aveE2CC, aveF2CC and aveF2CCV sums
\* to 1; aveE2CC is nC x nEy, aveF2CC is nC x (nFx + nFz), aveF2CCV is
\* 2*nC x (nFx + nFz) with the radial stencil in its upper left block and
\* the axial average in its lower right block.
C17_AveragingRowSums ==
    (pc = "ready" /\ Len(mesh.hy) = 1) =>
        LET x == Len(mesh.hx)
            z == Len(mesh.hz)
            E == slot["aveE2CC"]
            F == slot["aveF2CC"]
            V == slot["aveF2CCV"]
        IN  /\ E # None =>
                  /\ E.nr = x * z /\ E.nc = x * (z + 1)
                  /\ E.nr = nC(mesh) /\ E.nc = nEy(mesh)
                  /\ \A r \in 1..E.nr : RowSum(E, r) = QInt(1)
            /\ F # None =>
                  /\ F.nr = nC(mesh) /\ F.nc = nFx(mesh) + nFz(mesh)
                  /\ \A r \in 1..F.nr : RowSum(F, r) = QInt(1)
            /\ V # None =>
                  /\ V.nr = 2 * nC(mesh) /\ V.nc = nFx(mesh) + nFz(mesh)
                  /\ \A r \in 1..V.nr : RowSum(V, r) = QInt(1)
                  /\ \A k \in 1..z, i \in 1..x :
                        /\ V.row[(k - 1) * x + i] = RadialStencil(i, (k - 1) * x)
                        /\ V.row[x * z + (k - 1) * x + i]
                              = ((x * z + (k - 1) * x + i) :> Q(1, 2))
                                @@ ((x * z + k * x + i) :> Q(1, 2))

\* the three averaging operators are built on a symmetric mesh of two rings
\* and two layers
C17_Witness ==
    /\ Len(mesh.hy) = 1
    /\ Len(mesh.hx) >= 2
    /\ Len(mesh.hz) >= 2
    /\ slot["aveE2CC"] # None
    /\ slot["aveF2CC"] # None
    /\ slot["aveF2CCV"] # None

\* C13 (as claimed): getInterpolationMat with a CCV locType and
\* zerosOutside = True returns a matrix whose rows of points outside the
\* mesh are empty and whose other rows are those of zerosOutside = False.
C13_ZerosOutside ==
    (op = "getInterpolationMat" /\ arg.locType \in CCVTypes /\ arg.zerosOutside) =>
        LET plain == getInterpolationMat(mesh, arg.loc, arg.locType, FALSE)
        IN  /\ IsMat(ret)
            /\ \A p \in 1..Len(arg.loc) :
                  IF arg.loc[p].inside THEN ret.row[p] = plain.row[p]
                  ELSE DOMAIN ret.row[p] = {}

\* the column blocks of width n of the matrix A that hold the rows of Q
\* while every column outside them is empty
BlocksHolding(A, Q0, n) ==
    {b \in 0..((A.nc \div n) - 1) :
        \A p \in 1..A.nr :
            /\ DOMAIN A.row[p] = {b * n + c : c \in DOMAIN Q0.row[p]}
            /\ \A c \in DOMAIN Q0.row[p] : A.row[p][b * n + c] = Q0.row[p][c]}

\* C14 (as claimed): with zerosOutside = False the results for CCVx, CCVy
\* and CCVz have the same number of columns, each holds the cell-centre
\* matrix Q in one block of nC columns and nothing outside it, and the three
\* blocks are at three different positions.
C14_ComponentBlocks ==
    (op = "getInterpolationMat" /\ arg.locType \in CCVTypes /\ ~arg.zerosOutside) =>
        LET Q0 == interpmat(arg.loc, nC(mesh))
            of(t) == getInterpolationMat(mesh, arg.loc, t, FALSE)
            at(t) == BlocksHolding(of(t), Q0, nC(mesh))
        IN  /\ IsMat(ret)
            /\ \A t \in CCVTypes : of(t).nc = ret.nc /\ at(t) # {}
            /\ \A t, u \in CCVTypes : t # u => at(t) \cap at(u) = {}

\* C15 (as claimed): on a symmetric mesh getInterpolationMatCartMesh returns
\* diag(proj) * getInterpolationMat(G, interpType) for each of CC, N, Fx, Fy,
\* Fz, Ex, Ey, Ez, with Fy read as Fx and Ex as Ey and proj = 1 for CC, N, Fz
\* and Ez, and raises for none of them; on a full mesh it raises.
C15_CartMeshLocations ==
    (op = "getInterpolationMatCartMesh"
        /\ arg.locType \in {"CC", "N", "Fx", "Fy", "Fz", "Ex", "Ey", "Ez"}) =>
        IF Len(mesh.hy) = 1
        THEN LET it == IF arg.locType = "Fy" THEN "Fx"
                       ELSE IF arg.locType = "Ex" THEN "Ey" ELSE arg.locType
                 P == baseGetInterpolationMat(mesh, arg.grid, it)
             IN  /\ IsMat(ret)
                 /\ ret.nr = Len(arg.grid)
                 /\ ret = MatMul(sdiag(Vec(projOf(arg.grid, arg.locType))), P)
                 /\ arg.locType \in {"CC", "N", "Fz", "Ez"} => ret = P
        ELSE IsErr(ret)

\* beta0 divided by beta_coolingFactor k times
RECURSIVE Cooled(_)
Cooled(k) == IF k = 0 THEN QInt(beta0) ELSE QMul(Cooled(k - 1), Q(1, beta_coolingFactor))

\* C18: run() returns once started, if no minimize returned without calling
\* evalFunction; it calls minimize at least once and, for maxIter >= 0, at
\* most maxIter + 1 times; the k-th call (k = 0, 1, ...) runs with beta0
\* divided by beta_coolingFactor k times; the stopping test comes only after
\* a minimize call; run returns after the first call after which
\* _iter >= maxIter or _phi_d_last <= phi_d_target, and _iter grows only
\* when neither holds.
C18_RunTerminates ==
    /\ (inv.pc # "new") ~> (inv.pc = "returned" \/ inv.skipped)
    /\ [](/\ inv.maxIter >= 0 => inv.calls <= inv.maxIter + 1
          /\ inv.pc \in {"returned", "raised"} => inv.calls >= 1
          /\ \A k \in 1..Len(inv.betas) : inv.betas[k] = Cooled(k - 1)
          /\ inv.pc = "minimize" =>
                (Len(inv.betas) = inv.calls + 1 /\ inv.beta = Cooled(inv.calls))
          /\ inv.pc = "stop" => inv.calls = inv.iter + 1
          /\ inv.pc = "returned" =>
                /\ inv.calls = inv.iter + 1
                /\ inv.iter >= inv.maxIter \/ inv.phi_d_last[1] <= inv.phi_d_target)
    /\ [][/\ inv'.iter # inv.iter =>
                /\ inv.pc = "stop"
                /\ inv'.iter = inv.iter + 1
                /\ inv.iter < inv.maxIter
                /\ inv.phi_d_last[1] > inv.phi_d_target
          /\ (inv.pc = "stop" /\ inv'.pc = "getBeta") =>
                ~(inv.iter >= inv.maxIter \/ inv.phi_d_last[1] <= inv.phi_d_target)
         ]_vars

\* run() has returned on the misfit after a cooled second minimize call,
\* before the iteration limit
C18_Witness ==
    /\ inv.pc = "returned"
    /\ ~inv.skipped
    /\ inv.calls = 2
    /\ inv.iter < inv.maxIter
    /\ inv.phi_d_last[1] <= inv.phi_d_target
    /\ inv.beta = Q(beta0, beta_coolingFactor)
====
